---- MODULE Spec2Model ----
(***************************************************************************)
(* A model of scripts/render_kanata_layers.py: the block extractor, the    *)
(* row chunker, the alias resolver, the label/width mapper and the run of  *)
(* main.                                                                   *)
(*                                                                         *)
(* Text is a sequence of symbols.  A symbol is one character of the file   *)
(* ("(", ")", " ", "\n", "@", "_", a letter, a digit) or an indivisible    *)
(* run of characters that the inputs never split (a keyword such as        *)
(* "defsrc", a key name such as "tab", the comment marker ";;").  Offsets  *)
(* are the 0-based offsets of the Python code, counted in symbols.         *)
(***************************************************************************)
EXTENDS Integers, Sequences, FiniteSets, TLC

VARIABLES entry, text, pc, row_sizes, shape_rows, lidx, layers, aliases,
          start, iters, alias_desc, html, out_dir, out_file, printed, err,
          call

vars == <<entry, text, pc, row_sizes, shape_rows, lidx, layers, aliases,
          start, iters, alias_desc, html, out_dir, out_file, printed, err,
          call>>

LP == "("
RP == ")"
SP == " "
NL == "\n"
CM == ";;"

SetMin(S) == CHOOSE x \in S : \A y \in S : x <= y
SetMax(S) == CHOOSE x \in S : \A y \in S : x >= y

(* ------------------------------------------------------------------ *)
(* Python string primitives, on sequences of symbols.                  *)
(* ------------------------------------------------------------------ *)

\* t[a:b] for 0 <= a.
Slice(t, a, b) == SubSeq(t, a + 1, IF b < Len(t) THEN b ELSE Len(t))

\* t[a:] for 0 <= a.
SliceFrom(t, a) == SubSeq(t, a + 1, Len(t))

\* t[i : i + len(sub)] == sub
MatchAt(t, sub, i) ==
    /\ i + Len(sub) <= Len(t)
    /\ \A k \in 1..Len(sub) : t[i + k] = sub[k]

\* str.find(sub, from): the lowest offset >= from where sub occurs, or -1.
find(t, sub, from) ==
    LET hits == {i \in from..(Len(t) - Len(sub)) : MatchAt(t, sub, i)}
    IN  IF hits = {} THEN -1 ELSE SetMin(hits)

\* str.splitlines(), "\n" being the only line break of the alphabet: no
\* empty last element after a final line break, and [] for the empty string.
RECURSIVE splitlines(_)
splitlines(t) ==
    IF t = <<>> THEN <<>>
    ELSE LET nls == {i \in 1..Len(t) : t[i] = NL}
         IN  IF nls = {} THEN <<t>>
             ELSE LET j == SetMin(nls)
                  IN  <<SubSeq(t, 1, j - 1)>> \o splitlines(SubSeq(t, j + 1, Len(t)))

IsSpace(c) == c \in {SP, NL}

\* str.strip()
RECURSIVE lstrip(_)
lstrip(t) == IF t # <<>> /\ IsSpace(t[1]) THEN lstrip(Tail(t)) ELSE t

RECURSIVE rstrip(_)
rstrip(t) ==
    IF t # <<>> /\ IsSpace(t[Len(t)]) THEN rstrip(SubSeq(t, 1, Len(t) - 1)) ELSE t

strip(t) == rstrip(lstrip(t))

\* str.split(): the maximal runs of non-space symbols, each a token.
RECURSIVE split(_)
split(t) ==
    LET u == lstrip(t)
    IN  IF u = <<>> THEN <<>>
        ELSE LET sp == {i \in 1..Len(u) : IsSpace(u[i])}
                 n  == IF sp = {} THEN Len(u) ELSE SetMin(sp) - 1
             IN  <<SubSeq(u, 1, n)>> \o split(SubSeq(u, n + 1, Len(u)))

\* line.split(";;", 1)[0]
strip_comments(line) ==
    LET cs == {i \in 1..Len(line) : line[i] = CM}
    IN  IF cs = {} THEN line ELSE SubSeq(line, 1, SetMin(cs) - 1)

RECURSIVE tokens_from_lines(_)
tokens_from_lines(lines) ==
    IF lines = <<>> THEN <<>>
    ELSE LET ln == strip(strip_comments(lines[1]))
         IN  (IF ln = <<>> THEN <<>> ELSE split(ln)) \o tokens_from_lines(Tail(lines))

(* ------------------------------------------------------------------ *)
(* parse_block                                                         *)
(* ------------------------------------------------------------------ *)

NoBlock(msg) == [ok |-> FALSE, err |-> msg, inner |-> <<>>, start |-> -1, end |-> -1]

\* The slip of keeping the closing line: inner = block_lines[1:].
block_found_keep_last(t, s, e) ==
    LET block_lines == splitlines(Slice(t, s, e + 1))
    IN  [ok |-> TRUE, err |-> "", inner |-> SliceFrom(block_lines, 1),
         start |-> s, end |-> e + 1]

\* The closing parenthesis was met at offset e with the depth back to zero.
block_found(t, s, e) ==
    LET block_lines == splitlines(Slice(t, s, e + 1))
    IN  [ok |-> TRUE, err |-> "",
         inner |-> Slice(block_lines, 1, Len(block_lines) - 1),
         start |-> s, end |-> e + 1]

\* The turns of the while loop of parse_block on symbols that are no
\* parenthesis change nothing but i: the offset of the next parenthesis at
\* or after i, or len(text).
RECURSIVE NextParen(_, _)
NextParen(t, i) ==
    IF i >= Len(t) \/ t[i + 1] \in {LP, RP} THEN i ELSE NextParen(t, i + 1)

\* The while loop of parse_block, from offset i.
RECURSIVE scan(_, _, _, _, _, _)
scan(t, head, s, i, depth, in_block) ==
    LET j == NextParen(t, i)
    IN  IF j >= Len(t) THEN NoBlock("Unclosed block")
        ELSE IF t[j + 1] = LP THEN scan(t, head, s, j + 1, depth + 1, TRUE)
        ELSE IF in_block /\ depth - 1 = 0
             THEN block_found(t, s, j)
             ELSE scan(t, head, s, j + 1, depth - 1, in_block)

parse_block(t, head) ==
    LET s == find(t, head, 0)
    IN  IF s = -1 THEN NoBlock("Block not found")
        ELSE scan(t, head, s, s, 0, FALSE)

(* ------------------------------------------------------------------ *)
(* chunk_rows                                                          *)
(* ------------------------------------------------------------------ *)

\* The slip of advancing idx by one per row instead of by the row's size.
RECURSIVE chunk_from_slip(_, _, _)
chunk_from_slip(tokens, row_sizes_, idx) ==
    IF row_sizes_ = <<>> THEN <<>>
    ELSE <<Slice(tokens, idx, idx + row_sizes_[1])>>
         \o chunk_from_slip(tokens, Tail(row_sizes_), idx + 1)

\* The for loop of chunk_rows, idx being the tokens consumed so far.
RECURSIVE chunk_from(_, _, _)
chunk_from(tokens, row_sizes_, idx) ==
    IF row_sizes_ = <<>> THEN <<>>
    ELSE <<Slice(tokens, idx, idx + row_sizes_[1])>>
         \o chunk_from(tokens, Tail(row_sizes_), idx + row_sizes_[1])

chunk_rows(tokens, row_sizes_) == chunk_from(tokens, row_sizes_, 0)

(* ------------------------------------------------------------------ *)
(* Character classes and case conversion of the symbols.               *)
(* ------------------------------------------------------------------ *)

\* The symbols holding a character outside [A-Za-z0-9_].
NonWordSyms == {LP, RP, SP, NL, CM, "@", "t!", "layer-switch",
                "layer-while-held", "press-virtualkey"}

IsWord(c) == c \notin NonWordSyms

\* len(s) of a string held as symbols.
RECURSIVE CharLen(_)
CharLen(t) == IF t = <<>> THEN 0 ELSE Len(t[1]) + CharLen(Tail(t))

\* str.upper() of one symbol (the symbols with a lower-case letter).
UpperSym(c) ==
    CASE c = "a" -> "A" [] c = "b" -> "B" [] c = "tab" -> "TAB"
      [] c = "spc" -> "SPC" [] c = "nav" -> "NAV" [] c = "grp" -> "GRP"
      [] c = "foo" -> "FOO" [] c = "bar" -> "BAR" [] c = "sp" -> "SP"
      [] c = "hold" -> "HOLD" [] c = "ch" -> "CH" [] c = "vs" -> "VS"
      [] c = "unk" -> "UNK" [] c = "both" -> "BOTH" [] c = "f1" -> "F1"
      [] c = "lctl" -> "LCTL" [] c = "shift" -> "SHIFT"
      [] c = "charmod" -> "CHARMOD" [] c = "multi" -> "MULTI"
      [] c = "chord" -> "CHORD" [] c = "t!" -> "T!"
      [] c = "layer-switch" -> "LAYER-SWITCH"
      [] c = "layer-while-held" -> "LAYER-WHILE-HELD"
      [] c = "press-virtualkey" -> "PRESS-VIRTUALKEY"
      [] c = "main" -> "MAIN" [] c = "extend" -> "EXTEND"
      [] c = "fumbol" -> "FUMBOL" [] c = "defsrc" -> "DEFSRC"
      [] c = "deflayer" -> "DEFLAYER" [] c = "defalias" -> "DEFALIAS"
      [] OTHER -> c

upper(t) == [i \in 1..Len(t) |-> UpperSym(t[i])]

\* str.capitalize() of one symbol starting a string.
CapitalizeSym(c) ==
    CASE c = "nav" -> "Nav" [] c = "a" -> "A" [] c = "b" -> "B"
      [] c = "main" -> "Main" [] c = "extend" -> "Extend"
      [] c = "fumbol" -> "Fumbol" [] c = "foo" -> "Foo" [] c = "bar" -> "Bar"
      [] c = "spc" -> "Spc" [] c = "tab" -> "Tab" [] c = "grp" -> "Grp"
      [] OTHER -> c

\* str.capitalize(): the inputs hold no upper-case letter, so the symbols
\* after the first are left as they are.
capitalize(t) ==
    IF t = <<>> THEN <<>> ELSE <<CapitalizeSym(t[1])>> \o Tail(t)

(* ------------------------------------------------------------------ *)
(* Ordered dicts: sequences of [k, v] in insertion order.              *)
(* ------------------------------------------------------------------ *)

dict_has(d, k) == \E i \in 1..Len(d) : d[i].k = k

dict_get(d, k, default) ==
    IF dict_has(d, k) THEN d[CHOOSE i \in 1..Len(d) : d[i].k = k].v ELSE default

\* d[k] = v: a present key keeps its place and takes the new value.
dict_set(d, k, v) ==
    IF dict_has(d, k)
    THEN [i \in 1..Len(d) |-> IF d[i].k = k THEN [k |-> k, v |-> v] ELSE d[i]]
    ELSE Append(d, [k |-> k, v |-> v])

dict_keys(d) == {d[i].k : i \in 1..Len(d)}

(* ------------------------------------------------------------------ *)
(* Regular-expression pieces, on offsets into a string of symbols.     *)
(* ------------------------------------------------------------------ *)

\* The offset after the white space at offset i (i itself when none).
RECURSIVE SkipWs(_, _)
SkipWs(e, i) == IF i < Len(e) /\ IsSpace(e[i + 1]) THEN SkipWs(e, i + 1) ELSE i

\* The offset after the greedy \S+ at offset i (i itself when none).
RECURSIVE SkipNonWs(_, _)
SkipNonWs(e, i) ==
    IF i < Len(e) /\ ~IsSpace(e[i + 1]) THEN SkipNonWs(e, i + 1) ELSE i

\* The offset after the greedy \w+ at offset i (i itself when none).
RECURSIVE SkipWord(_, _)
SkipWord(e, i) == IF i < Len(e) /\ IsWord(e[i + 1]) THEN SkipWord(e, i + 1) ELSE i

NoMatch == [ok |-> FALSE, g1 |-> <<>>, g2 |-> <<>>]
Match(a, b) == [ok |-> TRUE, g1 |-> a, g2 |-> b]

\* re.search tries the offsets from the left: the leftmost of hits, or -1.
Leftmost(hits) == IF hits = {} THEN -1 ELSE SetMin(hits)

\* The common prefix  \(t!\s*charmod\s+  at offset i: the offset after it,
\* or -1.
CharmodPrefix(e, i) ==
    IF ~MatchAt(e, <<LP, "t!">>, i) THEN -1
    ELSE LET j1 == SkipWs(e, i + 2)
         IN  IF ~MatchAt(e, <<"charmod">>, j1) THEN -1
             ELSE LET j2 == SkipWs(e, j1 + 1)
                  IN  IF j2 = j1 + 1 THEN -1 ELSE j2

(* ------------------------------------------------------------------ *)
(* build_alias_descriptions                                            *)
(* ------------------------------------------------------------------ *)

Mods == {"lctl", "lalt", "lsft", "lmet", "rctl", "ralt", "rsft", "rmet"}

\* Glyphs are named by their code points.
mod_icon(m) ==
    CASE m \in {"lctl", "rctl"} -> "U+2303"
      [] m \in {"lsft", "rsft"} -> "U+21E7"
      [] m \in {"lalt", "ralt"} -> "U+2325"
      [] m \in {"lmet", "rmet"} -> "U+2318"
      [] OTHER -> m

KeyIconKeys == {"spc", "space", "tab", "bspc", "ret", "esc", "slash", "bsl",
                "lsgt", "comma", "dot"}

key_icon(k) ==
    CASE k \in {"spc", "space"} -> "U+2423"
      [] k = "tab" -> "U+21E5" [] k = "bspc" -> "U+232B"
      [] k = "ret" -> "U+23CE" [] k = "esc" -> "U+238B"
      [] k = "slash" -> "/" [] k = "bsl" -> "\\" [] k = "lsgt" -> "<>"
      [] k = "comma" -> "," [] k = "dot" -> "."

\* The slip of leaving a one-character key in lower case.
ch_label_no_upper(ch) ==
    IF Len(ch) = 1 /\ ch[1] \in KeyIconKeys THEN <<key_icon(ch[1])>> ELSE ch

\* key_icon.get(ch, ch.upper() if len(ch) == 1 else ch)
ch_label(ch) ==
    IF Len(ch) = 1 /\ ch[1] \in KeyIconKeys THEN <<key_icon(ch[1])>>
    ELSE IF CharLen(ch) = 1 THEN upper(ch) ELSE ch

\* \(t!\s*charmod\s+(\S+)\s+(lctl|lalt|lsft|lmet|rctl|ralt|rsft|rmet)\)
CharmodModAt(e, i) ==
    LET j2 == CharmodPrefix(e, i)
    IN  IF j2 = -1 THEN NoMatch
        ELSE LET j3 == SkipNonWs(e, j2)
                 j4 == SkipWs(e, j3)
             IN  IF /\ j3 > j2
                    /\ j4 > j3
                    /\ j4 + 2 <= Len(e)
                    /\ e[j4 + 1] \in Mods
                    /\ e[j4 + 2] = RP
                 THEN Match(Slice(e, j2, j3), <<e[j4 + 1]>>)
                 ELSE NoMatch

\* \(layer-switch\s+(\w+)\)  at offset i; the offset after it in g2.
LayerSwitchAt(e, i) ==
    IF ~MatchAt(e, <<LP, "layer-switch">>, i) THEN NoMatch
    ELSE LET j1 == SkipWs(e, i + 2)
             j2 == SkipWord(e, j1)
         IN  IF j1 > i + 2 /\ j2 > j1 /\ MatchAt(e, <<RP>>, j2)
             THEN Match(Slice(e, j1, j2), j2 + 1)
             ELSE NoMatch

\* \(t!\s*charmod\s+spc\s+\(multi\s+\(layer-switch\s+(\w+)\)\s*\)
SpaceLayerAt(e, i) ==
    LET j2 == CharmodPrefix(e, i)
    IN  IF j2 = -1 \/ ~MatchAt(e, <<"spc">>, j2) THEN NoMatch
        ELSE LET j3 == SkipWs(e, j2 + 1)
             IN  IF j3 = j2 + 1 \/ ~MatchAt(e, <<LP, "multi">>, j3) THEN NoMatch
                 ELSE LET j4 == SkipWs(e, j3 + 2)
                          ls == LayerSwitchAt(e, j4)
                      IN  IF j4 > j3 + 2 /\ ls.ok /\ MatchAt(e, <<RP>>, SkipWs(e, ls.g2))
                          THEN Match(ls.g1, <<>>)
                          ELSE NoMatch

\* \(t!\s*charmod\s+(\S+)\s+\(layer-while-held\s+(\w+)\)\)
HoldLayerAt(e, i) ==
    LET j2 == CharmodPrefix(e, i)
    IN  IF j2 = -1 THEN NoMatch
        ELSE LET j3 == SkipNonWs(e, j2)
                 j4 == SkipWs(e, j3)
                 j5 == SkipWs(e, j4 + 2)
                 j6 == SkipWord(e, j5)
             IN  IF /\ j3 > j2
                    /\ j4 > j3
                    /\ MatchAt(e, <<LP, "layer-while-held">>, j4)
                    /\ j5 > j4 + 2
                    /\ j6 > j5
                    /\ MatchAt(e, <<RP, RP>>, j6)
                 THEN Match(Slice(e, j2, j3), Slice(e, j5, j6))
                 ELSE NoMatch

\* \(chord\s+\w+\s+(.+?)\)$  : the lazy group runs to the last symbol, which
\* must be ")"; when the white space reaches that ")" the engine gives the
\* last white-space symbol back to the group.
ChordAt(e, i) ==
    IF ~MatchAt(e, <<LP, "chord">>, i) THEN NoMatch
    ELSE LET j1 == SkipWs(e, i + 2)
             j2 == SkipWord(e, j1)
             j3 == SkipWs(e, j2)
             n  == Len(e)
         IN  IF j1 > i + 2 /\ j2 > j1 /\ j3 > j2 /\ e[n] = RP
             THEN IF j3 <= n - 2 THEN Match(Slice(e, j3, n - 1), <<>>)
                  ELSE IF j3 = n - 1 /\ j3 - 1 > j2
                       THEN Match(Slice(e, j3 - 1, n - 1), <<>>)
                       ELSE NoMatch
             ELSE NoMatch

CharmodModRule(e) ==
    LET i == Leftmost({j \in 0..Len(e) : CharmodModAt(e, j).ok})
    IN  IF i = -1 THEN NoMatch ELSE CharmodModAt(e, i)

SpaceLayerRule(e) ==
    LET i == Leftmost({j \in 0..Len(e) : SpaceLayerAt(e, j).ok})
    IN  IF i = -1 THEN NoMatch ELSE SpaceLayerAt(e, i)

HoldLayerRule(e) ==
    LET i == Leftmost({j \in 0..Len(e) : HoldLayerAt(e, j).ok})
    IN  IF i = -1 THEN NoMatch ELSE HoldLayerAt(e, i)

ChordRule(e) ==
    LET i == Leftmost({j \in 0..Len(e) : ChordAt(e, j).ok})
    IN  IF i = -1 THEN NoMatch ELSE ChordAt(e, i)

LayerSwitchRule(e) ==
    LET i == Leftmost({j \in 0..Len(e) : LayerSwitchAt(e, j).ok})
    IN  IF i = -1 THEN NoMatch ELSE LayerSwitchAt(e, i)

\* "press-virtualkey shift" in e
VirtualShiftRule(e) == find(e, <<"press-virtualkey", SP, "shift">>, 0) # -1

ARROW == "U+2192"

\* expr.replace('\n', ' ')
flatten(expr) == [i \in 1..Len(expr) |-> IF expr[i] = NL THEN SP ELSE expr[i]]

\* The slip of trying the bare layer-switch rule before the others.
describe_layer_switch_first(name, expr) ==
    LET e == flatten(expr)
    IN  IF LayerSwitchRule(e).ok
        THEN <<ARROW, SP>> \o capitalize(LayerSwitchRule(e).g1)
        ELSE IF CharmodModRule(e).ok
        THEN ch_label(CharmodModRule(e).g1) \o <<SP>>
             \o <<mod_icon(CharmodModRule(e).g2[1])>>
        ELSE IF SpaceLayerRule(e).ok
        THEN <<"U+2423", SP, ARROW, SP>> \o capitalize(SpaceLayerRule(e).g1)
        ELSE IF HoldLayerRule(e).ok
        THEN ch_label(HoldLayerRule(e).g1) \o <<SP, ARROW, SP>>
             \o capitalize(HoldLayerRule(e).g2)
        ELSE IF ChordRule(e).ok
        THEN ch_label(strip(ChordRule(e).g1))
        ELSE IF VirtualShiftRule(e)
        THEN <<"U+21E7", SP, "press">>
        ELSE upper(name)

\* The body of the loop of build_alias_descriptions: the label of one alias.
describe(name, expr) ==
    LET e == flatten(expr)
    IN  IF CharmodModRule(e).ok
        THEN ch_label(CharmodModRule(e).g1) \o <<SP>>
             \o <<mod_icon(CharmodModRule(e).g2[1])>>
        ELSE IF SpaceLayerRule(e).ok
        THEN <<"U+2423", SP, ARROW, SP>> \o capitalize(SpaceLayerRule(e).g1)
        ELSE IF HoldLayerRule(e).ok
        THEN ch_label(HoldLayerRule(e).g1) \o <<SP, ARROW, SP>>
             \o capitalize(HoldLayerRule(e).g2)
        ELSE IF ChordRule(e).ok
        THEN ch_label(strip(ChordRule(e).g1))
        ELSE IF LayerSwitchRule(e).ok
        THEN <<ARROW, SP>> \o capitalize(LayerSwitchRule(e).g1)
        ELSE IF VirtualShiftRule(e)
        THEN <<"U+21E7", SP, "press">>
        ELSE upper(name)

RECURSIVE build_alias_descriptions_from(_, _)
build_alias_descriptions_from(al, desc) ==
    IF al = <<>> THEN desc
    ELSE build_alias_descriptions_from(
             Tail(al), dict_set(desc, al[1].k, describe(al[1].k, al[1].v)))

build_alias_descriptions(al) == build_alias_descriptions_from(al, <<>>)

(* ------------------------------------------------------------------ *)
(* parse_all_defalias                                                  *)
(* ------------------------------------------------------------------ *)

\* re.match(r"^([A-Za-z0-9_]+)\s+(.+)$", ln): g1 the name, g2 the rest.
AliasLine(ln) ==
    LET j1 == SkipWord(ln, 0)
        j2 == SkipWs(ln, j1)
    IN  IF j1 > 0 /\ j2 > j1 /\ j2 < Len(ln) /\ NL \notin {ln[i] : i \in 1..Len(ln)}
        THEN Match(Slice(ln, 0, j1), SliceFrom(ln, j2))
        ELSE NoMatch

\* The for loop over the interior lines of one block.
RECURSIVE collect_aliases(_, _)
collect_aliases(inner, al) ==
    IF inner = <<>> THEN al
    ELSE LET ln == strip(strip_comments(inner[1]))
             m  == AliasLine(ln)
         IN  IF ln = <<>> \/ MatchAt(ln, <<CM>>, 0) \/ ~m.ok
             THEN collect_aliases(Tail(inner), al)
             ELSE collect_aliases(Tail(inner), dict_set(al, m.g1, strip(m.g2)))

(* ------------------------------------------------------------------ *)
(* friendly_label, key_width_class, render_layer_html, build_html      *)
(* ------------------------------------------------------------------ *)

MappingKeys == {"esc", "bspc", "del", "ret", "tab", "caps", "spc", "space",
                "pp", "vold", "volu", "mute", "lmet", "rmet", "lalt", "ralt",
                "lsft", "rsft", "lctl", "rctl", "rght", "left", "up", "down",
                "pgup", "pgdn", "home", "end", "ins", "lsgt", "bsl", "slash",
                "dash", "btick", "lbrk", "rbrkA", "comma", "dot"}

mapping(k) ==
    CASE k = "esc" -> "U+238B" [] k = "bspc" -> "U+232B" [] k = "del" -> "U+2326"
      [] k = "ret" -> "U+23CE" [] k = "tab" -> "U+21E5" [] k = "caps" -> "U+21EA"
      [] k \in {"spc", "space"} -> "U+2423" [] k = "pp" -> "U+23EF"
      [] k = "vold" -> "U+1F509" [] k = "volu" -> "U+1F50A"
      [] k = "mute" -> "U+1F507" [] k \in {"lmet", "rmet"} -> "U+2318"
      [] k \in {"lalt", "ralt"} -> "U+2325" [] k \in {"lsft", "rsft"} -> "U+21E7"
      [] k \in {"lctl", "rctl"} -> "U+2303" [] k = "rght" -> "U+2192"
      [] k = "left" -> "U+2190" [] k = "up" -> "U+2191" [] k = "down" -> "U+2193"
      [] k = "pgup" -> "PgU+2191" [] k = "pgdn" -> "PgU+2193"
      [] k = "home" -> "Home" [] k = "end" -> "End" [] k = "ins" -> "Ins"
      [] k = "lsgt" -> "<>" [] k = "bsl" -> "\\" [] k = "slash" -> "/"
      [] k = "dash" -> "-" [] k = "btick" -> "U+0060" [] k = "lbrk" -> "["
      [] k = "rbrkA" -> "]" [] k = "comma" -> "," [] k = "dot" -> "."

\* The symbols matching f\d{1,2} among those of the inputs.
FKeySyms == {"f1"}

\* The one-letter symbols of the inputs (str.isalpha on one character).
AlphaSyms == {"a", "b"}

friendly_label(tok, desc) ==
    IF tok = <<"_">> THEN <<>>
    ELSE IF MatchAt(tok, <<"@">>, 0)
         THEN dict_get(desc, SliceFrom(tok, 1), upper(SliceFrom(tok, 1)))
    ELSE IF Len(tok) = 1 /\ tok[1] \in MappingKeys THEN <<mapping(tok[1])>>
    ELSE IF Len(tok) = 1 /\ tok[1] \in FKeySyms THEN upper(tok)
    ELSE IF Len(tok) = 1 /\ tok[1] \in AlphaSyms THEN upper(tok)
    ELSE tok

key_width_class(shape_tok) ==
    CASE shape_tok = <<"tab">> -> "w-15" [] shape_tok = <<"caps">> -> "w-17"
      [] shape_tok = <<"lsft">> -> "w-20" [] shape_tok = <<"rsft">> -> "w-23"
      [] shape_tok = <<"bspc">> -> "w-17" [] shape_tok = <<"ret">> -> "w-20"
      [] shape_tok = <<"spc">> -> "w-50" [] OTHER -> ""

SpaceVariants == {<<"spc">>, <<"@", "spc">>, <<"space">>, <<"@", "space">>}

\* The slip of letting w-50 replace the class of the physical key.
render_key_override(t, ri, ci, shape, desc) ==
    LET shape_tok == IF ri < Len(shape) /\ ci < Len(shape[ri + 1])
                     THEN shape[ri + 1][ci + 1] ELSE <<>>
        wcls == key_width_class(shape_tok)
    IN  [label |-> friendly_label(t, desc),
         classes |-> <<"key">>
                     \o (IF t = <<"_">> THEN <<"trans">> ELSE <<>>)
                     \o (IF t \in SpaceVariants THEN <<"w-50">>
                         ELSE IF wcls # "" THEN <<wcls>> ELSE <<>>)]

\* The body of the inner loop of render_layer_html: the key element of the
\* token t at row ri, column ci (0-based).
render_key(t, ri, ci, shape, desc) ==
    LET shape_tok == IF ri < Len(shape) /\ ci < Len(shape[ri + 1])
                     THEN shape[ri + 1][ci + 1] ELSE <<>>
        wcls == key_width_class(shape_tok)
    IN  [label |-> friendly_label(t, desc),
         classes |-> <<"key">>
                     \o (IF t = <<"_">> THEN <<"trans">> ELSE <<>>)
                     \o (IF wcls # "" THEN <<wcls>> ELSE <<>>)
                     \o (IF t \in SpaceVariants THEN <<"w-50">> ELSE <<>>)]

\* One layer element: its name and, row by row, its key elements.
render_layer_html(name, rows, shape, desc) ==
    [name |-> name,
     rows |-> [ri \in 1..Len(rows) |->
                 [ci \in 1..Len(rows[ri]) |->
                    render_key(rows[ri][ci], ri - 1, ci - 1, shape, desc)]]]

\* The layer elements of the document, in the order of layers.items().
build_html(lyrs, shape, desc) ==
    [i \in 1..Len(lyrs) |-> render_layer_html(lyrs[i].k, lyrs[i].v, shape, desc)]

(* ------------------------------------------------------------------ *)
(* Bounds and inputs.                                                  *)
(* ------------------------------------------------------------------ *)

\* A configuration text is at most MaxPieces pieces, one after the other.
MaxPieces == 3
\* The iterations of the loop of parse_all_defalias that are followed.
MaxIters == 4
\* parse_block alone: the texts of at most MaxTextLen symbols.
MaxTextLen == 7
\* chunk_rows alone: at most MaxTokens tokens and MaxRows rows of 1..MaxSize.
MaxTokens == 5
MaxRows == 2
MaxSize == 3

SrcHead == <<LP, "defsrc">>
AliasHead == <<LP, "defalias">>
LayerNames == <<"main", "extend", "fumbol">>
LayerHead(lname) == <<LP, "deflayer", SP, lname>>

\* (defsrc / tab a / spc / )
SrcBlock == <<LP, "defsrc", NL, SP, "tab", SP, "a", NL, SP, "spc", NL, RP, NL>>
\* (defsrc / a        -- never closed
SrcOpen == <<LP, "defsrc", NL, SP, "a", NL>>
\* (deflayer main / spc @foo / _ / )
MainBlock == <<LP, "deflayer", SP, "main", NL, SP, "spc", SP, "@", "foo", NL,
               SP, "_", NL, RP, NL>>
\* (deflayer main2 / b / )     -- another layer, whose name starts with main
Main2Block == <<LP, "deflayer", SP, "main", "2", NL, SP, "b", NL, RP, NL>>
\* (deflayer extend / @bar @spc ;; a / spc f1 / )
ExtendBlock == <<LP, "deflayer", SP, "extend", NL, SP, "@", "bar", SP, "@", "spc",
                 SP, CM, SP, "a", NL, SP, "spc", SP, "f1", NL, RP, NL>>
\* (deflayer fumbol / a        -- never closed
FumbolOpen == <<LP, "deflayer", SP, "fumbol", NL, SP, "a", NL>>
\* (defalias / foo (t! charmod a lctl) / )
AliasA == <<LP, "defalias", NL,
            SP, "foo", SP, LP, "t!", SP, "charmod", SP, "a", SP, "lctl", RP, NL,
            RP, NL>>
\* (defalias / sp (t! charmod spc (multi (layer-switch nav)))
\*           / hold (t! charmod tab (layer-while-held nav)) / ch (chord grp b)
\*           / bar (layer-switch nav) / vs (press-virtualkey shift) ;; a
\*           / unk (multi a b) / both (multi (t! charmod a lctl) (layer-switch nav))
\*           / (a) / )
AliasB == <<LP, "defalias", NL,
            SP, "sp", SP, LP, "t!", SP, "charmod", SP, "spc", SP, LP, "multi", SP,
                LP, "layer-switch", SP, "nav", RP, RP, RP, NL,
            SP, "hold", SP, LP, "t!", SP, "charmod", SP, "tab", SP,
                LP, "layer-while-held", SP, "nav", RP, RP, NL,
            SP, "ch", SP, LP, "chord", SP, "grp", SP, "b", RP, NL,
            SP, "bar", SP, LP, "layer-switch", SP, "nav", RP, NL,
            SP, "vs", SP, LP, "press-virtualkey", SP, "shift", RP, SP, CM, SP, "a", NL,
            SP, "unk", SP, LP, "multi", SP, "a", SP, "b", RP, NL,
            SP, "both", SP, LP, "multi", SP, LP, "t!", SP, "charmod", SP, "a", SP,
                "lctl", RP, SP, LP, "layer-switch", SP, "nav", RP, RP, NL,
            SP, LP, "a", RP, NL,
            RP, NL>>
\* (defalias foo (t! charmod a lctl))      -- on one line, no line break
AliasOneLine == <<LP, "defalias", SP, "foo", SP, LP, "t!", SP, "charmod", SP, "a",
                  SP, "lctl", RP, RP>>
\* (defalias / foo (chord      -- never closed
AliasOpen == <<LP, "defalias", NL, SP, "foo", SP, LP, "chord", NL>>

Pieces == {SrcBlock, SrcOpen, MainBlock, Main2Block, ExtendBlock, FumbolOpen,
           AliasA, AliasB, AliasOneLine, AliasOpen}

RECURSIVE TextsOf(_)
TextsOf(n) ==
    IF n = 0 THEN {<<>>}
    ELSE LET shorter == TextsOf(n - 1)
         IN  shorter \cup {t \o p : t \in shorter, p \in Pieces}

Texts == TextsOf(MaxPieces)

RECURSIVE SeqsUpTo(_, _)
SeqsUpTo(S, n) ==
    IF n = 0 THEN {<<>>}
    ELSE LET shorter == SeqsUpTo(S, n - 1)
         IN  shorter \cup {Append(t, x) : t \in shorter, x \in S}

\* parse_block alone: h stands for the keyword of the head.
BlockHead == <<LP, "h">>
BlockTexts == SeqsUpTo({LP, RP, NL, "h"}, MaxTextLen)

(* ------------------------------------------------------------------ *)
(* The run of main, and of the alias resolution called on its own.     *)
(* ------------------------------------------------------------------ *)

NoCall == [fn |-> "", head |-> <<>>, tokens |-> <<>>, sizes |-> <<>>, out |-> <<>>]

Fresh ==
    /\ row_sizes = <<>>
    /\ shape_rows = <<>>
    /\ lidx = 1
    /\ layers = <<>>
    /\ aliases = <<>>
    /\ start = 0
    /\ iters = 0
    /\ alias_desc = <<>>
    /\ html = <<>>
    /\ out_dir = FALSE
    /\ out_file = <<>>
    /\ printed = FALSE
    /\ err = ""

Init ==
    /\ entry \in {"main", "resolve"}
    /\ text \in Texts
    /\ pc = IF entry = "main" THEN "defsrc" ELSE "aliases"
    /\ call = NoCall
    /\ Fresh

\* for ln in src_lines: tokc = len(strip_comments(ln).split()); if tokc: ...
RECURSIVE ShapeRowsOf(_)
ShapeRowsOf(lines) ==
    IF lines = <<>> THEN <<>>
    ELSE LET toks == split(strip_comments(lines[1]))
         IN  (IF toks = <<>> THEN <<>> ELSE <<toks>>) \o ShapeRowsOf(Tail(lines))

RowSizesOf(lines) ==
    LET sh == ShapeRowsOf(lines) IN [i \in 1..Len(sh) |-> Len(sh[i])]

\* The slip of making the output directory before anything is parsed.
ParseDefsrcMkdirFirst ==
    /\ pc = "defsrc"
    /\ out_dir' = TRUE
    /\ LET r == parse_block(text, SrcHead)
       IN  IF r.ok
           THEN /\ row_sizes' = RowSizesOf(r.inner)
                /\ shape_rows' = ShapeRowsOf(r.inner)
                /\ pc' = "layers"
                /\ err' = err
           ELSE /\ pc' = "aborted"
                /\ err' = r.err
                /\ UNCHANGED <<row_sizes, shape_rows>>
    /\ UNCHANGED <<entry, text, lidx, layers, aliases, start, iters, alias_desc,
                   html, out_file, printed, call>>

\* main, lines 256-272: read the text and parse the defsrc block.
ParseDefsrc ==
    /\ pc = "defsrc"
    /\ LET r == parse_block(text, SrcHead)
       IN  IF r.ok
           THEN /\ row_sizes' = RowSizesOf(r.inner)
                /\ shape_rows' = ShapeRowsOf(r.inner)
                /\ pc' = "layers"
                /\ err' = err
           ELSE /\ pc' = "aborted"
                /\ err' = r.err
                /\ UNCHANGED <<row_sizes, shape_rows>>
    /\ UNCHANGED <<entry, text, lidx, layers, aliases, start, iters, alias_desc,
                   html, out_dir, out_file, printed, call>>

\* main, lines 276-283: one turn of the loop over the layer names.
ParseLayer ==
    /\ pc = "layers"
    /\ LET lname == LayerNames[lidx]
           r == parse_block(text, LayerHead(lname))
       IN  layers' = IF r.ok
                     THEN dict_set(layers, lname,
                                   chunk_rows(tokens_from_lines(r.inner), row_sizes))
                     ELSE layers
    /\ lidx' = lidx + 1
    /\ pc' = IF lidx = Len(LayerNames) THEN "aliases" ELSE "layers"
    /\ UNCHANGED <<entry, text, row_sizes, shape_rows, aliases, start, iters,
                   alias_desc, html, out_dir, out_file, printed, err, call>>

\* parse_all_defalias, lines 85-100: one turn of the while loop.
AliasIter ==
    /\ pc = "aliases"
    /\ iters < MaxIters
    /\ LET idx == find(text, AliasHead, start)
           r == parse_block(text, AliasHead)
       IN  IF idx = -1
           THEN /\ pc' = "describe"
                /\ UNCHANGED <<aliases, start, iters, err>>
           ELSE IF r.ok
           THEN /\ aliases' = collect_aliases(r.inner, aliases)
                /\ start' = r.end
                /\ iters' = iters + 1
                /\ UNCHANGED <<pc, err>>
           ELSE /\ pc' = "aborted"
                /\ err' = r.err
                /\ UNCHANGED <<aliases, start, iters>>
    /\ UNCHANGED <<entry, text, row_sizes, shape_rows, lidx, layers, alias_desc,
                   html, out_dir, out_file, printed, call>>

\* main, line 287 (and the resolution called on its own).
Describe ==
    /\ pc = "describe"
    /\ alias_desc' = build_alias_descriptions(aliases)
    /\ pc' = IF entry = "main" THEN "render" ELSE "done"
    /\ UNCHANGED <<entry, text, row_sizes, shape_rows, lidx, layers, aliases, start,
                   iters, html, out_dir, out_file, printed, err, call>>

\* main, line 289.
Render ==
    /\ pc = "render"
    /\ html' = build_html(layers, shape_rows, alias_desc)
    /\ pc' = "write"
    /\ UNCHANGED <<entry, text, row_sizes, shape_rows, lidx, layers, aliases, start,
                   iters, alias_desc, out_dir, out_file, printed, err, call>>

\* main, lines 290-292: make the directory, write the file, print.
WriteOut ==
    /\ pc = "write"
    /\ out_dir' = TRUE
    /\ out_file' = Append(out_file, html)
    /\ printed' = TRUE
    /\ pc' = "done"
    /\ UNCHANGED <<entry, text, row_sizes, shape_rows, lidx, layers, aliases, start,
                   iters, alias_desc, html, err, call>>

Next == ParseDefsrc \/ ParseLayer \/ AliasIter \/ Describe \/ Render \/ WriteOut

Spec == Init /\ [][Next]_vars

(* ------------------------------------------------------------------ *)
(* parse_block and chunk_rows called on their own.                     *)
(* ------------------------------------------------------------------ *)

InitBlock ==
    /\ entry = "parse_block"
    /\ text \in BlockTexts
    /\ pc = "call"
    /\ call = [NoCall EXCEPT !.fn = "parse_block", !.head = BlockHead]
    /\ Fresh

CallParseBlock ==
    /\ pc = "call"
    /\ entry = "parse_block"
    /\ call' = [call EXCEPT !.out = parse_block(text, call.head)]
    /\ pc' = "returned"
    /\ UNCHANGED <<entry, text, row_sizes, shape_rows, lidx, layers, aliases, start,
                   iters, alias_desc, html, out_dir, out_file, printed, err>>

SpecBlock == InitBlock /\ [][CallParseBlock]_vars

InitChunk ==
    /\ entry = "chunk_rows"
    /\ text = <<>>
    /\ pc = "call"
    /\ \E toks \in SeqsUpTo({"a", "b"}, MaxTokens), sizes \in SeqsUpTo(1..MaxSize, MaxRows) :
          call = [NoCall EXCEPT !.fn = "chunk_rows", !.tokens = toks, !.sizes = sizes]
    /\ Fresh

CallChunkRows ==
    /\ pc = "call"
    /\ entry = "chunk_rows"
    /\ call' = [call EXCEPT !.out = chunk_rows(call.tokens, call.sizes)]
    /\ pc' = "returned"
    /\ UNCHANGED <<entry, text, row_sizes, shape_rows, lidx, layers, aliases, start,
                   iters, alias_desc, html, out_dir, out_file, printed, err>>

SpecChunk == InitChunk /\ [][CallChunkRows]_vars

(* ------------------------------------------------------------------ *)
(* What the text holds, said without the scanning loop.                *)
(* ------------------------------------------------------------------ *)

\* The offsets at which head occurs in t.
HeadOffsets(t, head) ==
    {i \in 0..(Len(t) - Len(head)) : \A k \in 1..Len(head) : t[i + k] = head[k]}

\* The nesting depth after the symbol at offset j, counted from offset s.
DepthAfter(t, s, j) ==
    Cardinality({k \in s..j : t[k + 1] = LP}) - Cardinality({k \in s..j : t[k + 1] = RP})

\* The offsets, from s on, after which the depth is zero.
ClosingOffsets(t, s) == {j \in s..(Len(t) - 1) : DepthAfter(t, s, j) = 0}

\* The number of the line (from 0) holding offset i.
LineOfOffset(t, i) == Cardinality({k \in 0..(i - 1) : t[k + 1] = NL})

\* Line n of t, without its line break.
LineText(t, n) ==
    LET idx == {i \in 0..(Len(t) - 1) : LineOfOffset(t, i) = n /\ t[i + 1] # NL}
    IN  IF idx = {} THEN <<>> ELSE SubSeq(t, SetMin(idx) + 1, SetMax(idx) + 1)

\* The lines strictly between the line of offset s and the line of offset c.
LinesBetween(t, s, c) ==
    [k \in 1..(LineOfOffset(t, c) - LineOfOffset(t, s) - 1) |->
        LineText(t, LineOfOffset(t, s) + k)]

(* ------------------------------------------------------------------ *)
(* C3: parse_block.                                                    *)
(* ------------------------------------------------------------------ *)

\* C3: parse_block(text, head), head beginning with "(": "Block not found"
\* when head does not occur; "Unclosed block" when, from the first
\* occurrence, the depth never returns to zero; otherwise the end offset is
\* just past the ")" that first brings the depth to zero and the interior
\* is exactly the lines strictly between the header line and the line of
\* that ")".
C3_ParseBlock ==
    (entry = "parse_block" /\ pc = "returned") =>
        LET occ == HeadOffsets(text, call.head)
            r == call.out
        IN  IF occ = {} THEN ~r.ok /\ r.err = "Block not found"
            ELSE LET s == SetMin(occ)
                     cl == ClosingOffsets(text, s)
                 IN  IF cl = {} THEN ~r.ok /\ r.err = "Unclosed block"
                     ELSE /\ r.ok
                          /\ r.start = s
                          /\ r.end = SetMin(cl) + 1
                          /\ Len(r.inner) = Len(LinesBetween(text, s, SetMin(cl)))
                          /\ \A k \in 1..Len(r.inner) :
                                r.inner[k] = LinesBetween(text, s, SetMin(cl))[k]

\* A block was returned with a non-empty interior line, and a symbol on the
\* closing line before the ")" that is not part of the interior.
C3_Witness ==
    /\ entry = "parse_block"
    /\ pc = "returned"
    /\ call.out.ok
    /\ Len(call.out.inner) = 1
    /\ call.out.inner[1] = <<"h">>
    /\ text[call.out.end - 1] = "h"

(* ------------------------------------------------------------------ *)
(* C4: chunk_rows.                                                     *)
(* ------------------------------------------------------------------ *)

RECURSIVE SumTo(_, _)
SumTo(sizes, n) == IF n = 0 THEN 0 ELSE sizes[n] + SumTo(sizes, n - 1)

RECURSIVE Concat(_)
Concat(rows) == IF rows = <<>> THEN <<>> ELSE rows[1] \o Concat(Tail(rows))

Least(a, b) == IF a < b THEN a ELSE b

\* C4: chunk_rows returns len(row_sizes) rows whose concatenation is the
\* first min(len(tokens), sum(row_sizes)) tokens in order; row i has length
\* row_sizes[i] when enough tokens remain, and otherwise holds what remains
\* (possibly nothing).
C4_ChunkRows ==
    (entry = "chunk_rows" /\ pc = "returned") =>
        LET toks == call.tokens
            sizes == call.sizes
            rows == call.out
            total == SumTo(sizes, Len(sizes))
        IN  /\ Len(rows) = Len(sizes)
            /\ Concat(rows) = SubSeq(toks, 1, Least(Len(toks), total))
            /\ \A i \in 1..Len(sizes) :
                  LET before == SumTo(sizes, i - 1)
                      left == IF Len(toks) > before THEN Len(toks) - before ELSE 0
                  IN  /\ Len(rows[i]) = Least(sizes[i], left)
                      /\ (before + sizes[i] <= Len(toks) => Len(rows[i]) = sizes[i])

\* Sizes [2, 3] met five tokens.
C4_Witness ==
    /\ entry = "chunk_rows"
    /\ pc = "returned"
    /\ call.sizes = <<2, 3>>
    /\ Len(call.tokens) = 5
    /\ Len(call.out) = 2

(* ------------------------------------------------------------------ *)
(* C1, C2: the loop of parse_all_defalias.                             *)
(* ------------------------------------------------------------------ *)

\* The offset of the n-th occurrence (from 1) of head in t.
NthOffset(t, head, n) ==
    CHOOSE i \in HeadOffsets(t, head) :
        Cardinality({j \in HeadOffsets(t, head) : j < i}) = n - 1

\* The name -> expression pairs of the well-formed alias lines strictly
\* inside the block that opens at offset s and is closed.
BlockPairs(t, s) ==
    LET lines == LinesBetween(t, s, SetMin(ClosingOffsets(t, s)))
    IN  {[k |-> AliasLine(strip(strip_comments(lines[i]))).g1,
          v |-> strip(AliasLine(strip(strip_comments(lines[i]))).g2)] :
            i \in {j \in 1..Len(lines) : AliasLine(strip(strip_comments(lines[j]))).ok}}

\* C1: the alias table holds the pairs of every defalias block consumed so
\* far, the n-th turn of the loop consuming the n-th block of the text (not
\* the first block again).
C1_AllBlocks ==
    \A n \in 1..iters :
        (/\ n <= Cardinality(HeadOffsets(text, AliasHead))
         /\ ClosingOffsets(text, NthOffset(text, AliasHead, n)) # {})
        => \A pair \in BlockPairs(text, NthOffset(text, AliasHead, n)) :
              \E i \in 1..Len(aliases) : aliases[i] = pair

\* C2: every turn of the loop of parse_all_defalias that goes round again
\* leaves the search-start offset strictly greater than it was.
C2_StartIncreases ==
    [][(pc = "aliases" /\ pc' = "aliases") => start' > start]_vars

(* ------------------------------------------------------------------ *)
(* C5, C6, C10: the run of main.                                       *)
(* ------------------------------------------------------------------ *)

FirstOnlyHeads ==
    {SrcHead} \cup {LayerHead(LayerNames[i]) : i \in 1..Len(LayerNames)}

\* A block the run parses is opened in the text and never closed: the first
\* defsrc block, the first block of a layer of interest, or a defalias block.
UnclosedBlock(t) ==
    \/ \E head \in FirstOnlyHeads :
          /\ HeadOffsets(t, head) # {}
          /\ ClosingOffsets(t, SetMin(HeadOffsets(t, head))) = {}
    \/ \E s \in HeadOffsets(t, AliasHead) : ClosingOffsets(t, s) = {}

\* C5: with an unclosed block among those the run parses, the run never
\* gets to render or write: nothing is written and the run does not complete.
C5_UnclosedIsFatal ==
    (entry = "main" /\ UnclosedBlock(text)) =>
        /\ pc \notin {"render", "write", "done"}
        /\ out_file = <<>>

\* The text holds a closed deflayer block whose name is exactly lname: the
\* head, then a symbol that is not part of a name.
HasLayerBlock(t, lname) ==
    \E s \in HeadOffsets(t, LayerHead(lname)) :
        /\ s + Len(LayerHead(lname)) < Len(t)
        /\ ~IsWord(t[s + Len(LayerHead(lname)) + 1])
        /\ ClosingOffsets(t, s) # {}

\* The names among names, in their order, whose deflayer block t holds.
RECURSIVE LayersHeld(_, _)
LayersHeld(t, names) ==
    IF names = <<>> THEN <<>>
    ELSE (IF HasLayerBlock(t, names[1]) THEN <<names[1]>> ELSE <<>>)
         \o LayersHeld(t, Tail(names))

\* C6: a run of main that completes has parsed a defsrc block, and the layer
\* sections written are, in the order main, extend, fumbol, exactly the
\* names for which the text holds a deflayer block of that name.
C6_LayerSections ==
    (entry = "main" /\ pc = "done") =>
        /\ HeadOffsets(text, SrcHead) # {}
        /\ Len(out_file) = 1
        /\ [i \in 1..Len(out_file[1]) |-> out_file[1][i].name]
             = LayersHeld(text, LayerNames)

\* C10: the file is written at most once, together with its directory, only
\* by the last step of a run of main that has parsed the defsrc block, the
\* three layers and the alias blocks, and it holds one section per parsed
\* layer; a run that aborts leaves the file and the directory untouched.
C10_WriteLast ==
    /\ Len(out_file) <= 1
    /\ (out_dir \/ out_file # <<>> \/ printed) =>
          /\ entry = "main"
          /\ pc = "done"
          /\ lidx = Len(LayerNames) + 1
          /\ find(text, AliasHead, start) = -1
          /\ out_file = <<html>>
          /\ Len(html) = Len(layers)
    /\ pc = "aborted" => (~out_dir /\ out_file = <<>> /\ ~printed /\ err # "")

\* A run aborted on an unclosed defalias block after it had parsed a layer.
C10_Witness ==
    /\ entry = "main"
    /\ pc = "aborted"
    /\ err = "Unclosed block"
    /\ layers # <<>>
    /\ out_file = <<>>

(* ------------------------------------------------------------------ *)
(* C7, C8: alias resolution.                                           *)
(* ------------------------------------------------------------------ *)

Foo == <<"foo">>
CtlGlyph == "U+2303"

\* C7 as the spec states it: resolving the one-line text
\* (defalias foo (t! charmod a lctl)) labels foo "A" followed at once by the
\* control glyph.
C7_OneLineLabel ==
    (entry = "resolve" /\ pc = "done" /\ text = AliasOneLine) =>
        /\ dict_has(alias_desc, Foo)
        /\ dict_get(alias_desc, Foo, <<>>) = <<"A", CtlGlyph>>

\* C7 amended: with the alias line on a line of its own between the header
\* line and the line of the closing parenthesis, foo is labelled "A", a
\* space, the control glyph; resolving the one-line text gives foo no label.
C7_OwnLineLabel ==
    (entry = "resolve" /\ pc = "done") =>
        /\ text = AliasA =>
              alias_desc = <<[k |-> Foo, v |-> <<"A", SP, CtlGlyph>>]>>
        /\ text = AliasOneLine => alias_desc = <<>>

C7_Witness ==
    /\ entry = "resolve"
    /\ pc = "done"
    /\ text = AliasA
    /\ dict_has(alias_desc, Foo)

\* Whether rule n (1..6, in the order of the spec) matches e.
RuleMatches(n, e) ==
    CASE n = 1 -> CharmodModRule(e).ok
      [] n = 2 -> SpaceLayerRule(e).ok
      [] n = 3 -> HoldLayerRule(e).ok
      [] n = 4 -> ChordRule(e).ok
      [] n = 5 -> LayerSwitchRule(e).ok
      [] n = 6 -> VirtualShiftRule(e)

\* The label rule n gives, 0 being the fallback.
RuleLabel(n, name, e) ==
    CASE n = 1 -> ch_label(CharmodModRule(e).g1) \o <<SP, mod_icon(CharmodModRule(e).g2[1])>>
      [] n = 2 -> <<"U+2423", SP, ARROW, SP>> \o capitalize(SpaceLayerRule(e).g1)
      [] n = 3 -> ch_label(HoldLayerRule(e).g1) \o <<SP, ARROW, SP>>
                  \o capitalize(HoldLayerRule(e).g2)
      [] n = 4 -> ch_label(strip(ChordRule(e).g1))
      [] n = 5 -> <<ARROW, SP>> \o capitalize(LayerSwitchRule(e).g1)
      [] n = 6 -> <<"U+21E7", SP, "press">>
      [] n = 0 -> upper(name)

FirstRule(e) ==
    LET ms == {n \in 1..6 : RuleMatches(n, e)}
    IN  IF ms = {} THEN 0 ELSE SetMin(ms)

\* The positions <<layer, row, column>> (from 1) of the keys of the layers.
KeyPositions ==
    UNION {UNION {{<<i, r, c>> : c \in 1..Len(layers[i].v[r])} :
                     r \in 1..Len(layers[i].v)} :
              i \in 1..Len(layers)}

\* C8: once the descriptions are built every alias of the table has exactly
\* one label, that of the first rule (in the order 1..6) matching its
\* expression, or its upper-cased name when none matches; and in the
\* rendered layers a token @x whose x has no description is labelled with x
\* upper-cased.
C8_FirstRuleWins ==
    /\ pc \in {"render", "write", "done"} =>
         /\ Len(alias_desc) = Len(aliases)
         /\ \A i \in 1..Len(aliases) :
               /\ Cardinality({j \in 1..Len(alias_desc) : alias_desc[j].k = aliases[i].k}) = 1
               /\ dict_get(alias_desc, aliases[i].k, <<>>)
                    = RuleLabel(FirstRule(flatten(aliases[i].v)), aliases[i].k,
                                flatten(aliases[i].v))
    /\ pc \in {"write", "done"} /\ entry = "main" =>
         \A p \in KeyPositions :
            LET tok == layers[p[1]].v[p[2]][p[3]]
            IN  (tok[1] = "@" /\ ~dict_has(alias_desc, Tail(tok)))
                => html[p[1]].rows[p[2]][p[3]].label = upper(Tail(tok))

\* A run was rendered in which an alias matching two rules (both) and one
\* matching none (unk) are described and a token @spc has no description.
C8_Witness ==
    /\ entry = "main"
    /\ pc = "done"
    /\ dict_has(alias_desc, <<"both">>)
    /\ dict_has(alias_desc, <<"unk">>)
    /\ \E p \in KeyPositions :
          /\ layers[p[1]].v[p[2]][p[3]] = <<"@", "spc">>
          /\ ~dict_has(alias_desc, <<"spc">>)

(* ------------------------------------------------------------------ *)
(* C9: width classes.                                                  *)
(* ------------------------------------------------------------------ *)

WidthClasses == {"w-15", "w-17", "w-20", "w-23", "w-50"}

IsWidthClass(c) == c \in WidthClasses

\* The width classes a key element carries, in order.
WidthsOf(key) == SelectSeq(key.classes, IsWidthClass)

\* The class the physical-key table gives for the ShapeRows token at row r,
\* column c (from 1), as a sequence: empty when there is none.
PhysicalWidth(r, c) ==
    IF r <= Len(shape_rows) /\ c <= Len(shape_rows[r])
       /\ key_width_class(shape_rows[r][c]) # ""
    THEN <<key_width_class(shape_rows[r][c])>>
    ELSE <<>>

\* C9 as the spec states it: a space variant carries w-50 as its only width
\* class, any other token the class of the physical key or none; never two.
C9_SpaceOverrides ==
    (pc \in {"write", "done"} /\ entry = "main") =>
        \A p \in KeyPositions :
            LET tok == layers[p[1]].v[p[2]][p[3]]
                ws == WidthsOf(html[p[1]].rows[p[2]][p[3]])
            IN  /\ Len(ws) <= 1
                /\ ws = IF tok \in SpaceVariants THEN <<"w-50">>
                        ELSE PhysicalWidth(p[2], p[3])

\* C9 amended: a space variant carries the class of the physical key, when
\* there is one, and then w-50 as well; any other token the class of the
\* physical key or none.
C9_SpaceAdds ==
    (pc \in {"write", "done"} /\ entry = "main") =>
        \A p \in KeyPositions :
            LET tok == layers[p[1]].v[p[2]][p[3]]
                ws == WidthsOf(html[p[1]].rows[p[2]][p[3]])
            IN  ws = PhysicalWidth(p[2], p[3])
                     \o (IF tok \in SpaceVariants THEN <<"w-50">> ELSE <<>>)

\* A written key element of a space token over the physical key tab.
C9_Witness ==
    /\ entry = "main"
    /\ pc = "done"
    /\ \E p \in KeyPositions :
          /\ layers[p[1]].v[p[2]][p[3]] = <<"spc">>
          /\ shape_rows[p[2]][p[3]] = <<"tab">>
          /\ out_file[1][p[1]].rows[p[2]][p[3]].classes = <<"key", "w-15", "w-50">>

====
